---- MODULE Spec2Model ----
(***************************************************************************)
(* Draft allocation engine of draft_wheel: DraftLogic (players, role       *)
(* pools, teams, undo history, two-file snapshot) and the probability      *)
(* engine it calls.                                                        *)
(*                                                                         *)
(* Python dicts are insertion ordered; all_players and teams are kept as   *)
(* sequences of records in insertion order, players_by_role as a function  *)
(* whose DOMAIN is the key set.  Floats are fixed-point integers with      *)
(* SCALE units per 1.0 (truncating division).                              *)
(***************************************************************************)
EXTENDS Integers, Sequences, FiniteSets, TLC

VARIABLES all_players, players_by_role, teams, draft_history,
          remaining_csv, teams_csv, ret, gui

vars == <<all_players, players_by_role, teams, draft_history,
          remaining_csv, teams_csv, ret, gui>>

(***************************************************************************)
(* Bounds of the exploration.                                              *)
(***************************************************************************)
MaxEntries == 2

MaxDup == 2

\* timer loops of the spin animation that may be pending at once
MaxLoops == 2

(***************************************************************************)
(* Fixed-point unit and configuration (config dict read in __init__).      *)
(***************************************************************************)
SCALE == 1000

roles == <<"carry", "mid">>

team_size == 2

global_average_mmr == 40

role_preference_weights == (1 :> 900) @@ (2 :> 600) @@ (3 :> 100)

randomness_levels == (0 :> 500)

DefaultRandomness == 300

logistic_midpoint == 100

logistic_slope == 5000

blend_alpha == 1000

default_teams == <<"A">>

Captain == "(Captain)"

None == "None"

(***************************************************************************)
(* Inputs: the player CSV read at construction, the team ids and captain   *)
(* names / ratings typed into the GUI, the pointer positions (in 1/SCALE   *)
(* percent).                                                               *)
(***************************************************************************)
player_data_csv ==
  << [name |-> "p1", mmr |-> <<"3", "0">>,
      roles |-> <<"carry", "(", "1", ")", "|", "mid", "(", "2", ")">>],
     [name |-> "p2", mmr |-> <<"4", "0">>,
      roles |-> <<"mid">>],
     [name |-> "p3", mmr |-> <<"5", "0">>,
      roles |-> <<"carry", "(", "4", ")">>] >>

TeamIds == {"A", "B"}

CaptainNames == {"cap", "p1"}

NewCaptainNames == {"cap"}

CaptainMmrs == {90}

Positions == {0, 45000, 99999, 100000}

RoleInputs == {"carry", "mid"}

SpinRoles == {"carry", "mid", "offlane"}

(***************************************************************************)
(* Sequence helpers with the semantics of Python lists.                    *)
(***************************************************************************)
InSeq(s, x) == \E i \in 1..Len(s) : s[i] = x

IndexOf(s, x) == CHOOSE i \in 1..Len(s) : s[i] = x /\ \A j \in 1..(i-1) : s[j] # x

RemoveAt(s, i) == SubSeq(s, 1, i-1) \o SubSeq(s, i+1, Len(s))

\* list.remove(x): drops the first occurrence only
ListRemove(s, x) == RemoveAt(s, IndexOf(s, x))

Last(s) == s[Len(s)]

Occurrences(s, x) == Cardinality({i \in 1..Len(s) : s[i] = x})

Front(s) == SubSeq(s, 1, Len(s)-1)

(***************************************************************************)
(* str(int) and int(str) over decimal digit strings.                       *)
(***************************************************************************)
Digits == <<"0", "1", "2", "3", "4", "5", "6", "7", "8", "9">>

RECURSIVE NatToStr(_)
NatToStr(n) == IF n < 10 THEN <<Digits[n+1]>>
               ELSE NatToStr(n \div 10) \o <<Digits[(n % 10) + 1]>>

IntToStr(n) == IF n < 0 THEN <<"-">> \o NatToStr(0 - n) ELSE NatToStr(n)

IsDigit(c) == InSeq(Digits, c)

DigitVal(c) == IndexOf(Digits, c) - 1

RECURSIVE StrToNat(_)
StrToNat(s) == IF Len(s) = 1 THEN DigitVal(s[1])
               ELSE 10 * StrToNat(Front(s)) + DigitVal(Last(s))

IsNatStr(s) == Len(s) > 0 /\ \A i \in 1..Len(s) : IsDigit(s[i])

\* int(s) succeeds on an optionally signed digit string
IsIntStr(s) == IF Len(s) > 0 /\ s[1] = "-" THEN IsNatStr(Tail(s)) ELSE IsNatStr(s)

StrToInt(s) == IF s[1] = "-" THEN 0 - StrToNat(Tail(s)) ELSE StrToNat(s)

(***************************************************************************)
(* _parse_roles_with_priority / _roles_to_string.  A roles string is a     *)
(* sequence of tokens: role names, "(", ")", "|" and digits.               *)
(***************************************************************************)
RECURSIVE Split(_, _)
Split(s, sep) ==
  IF ~InSeq(s, sep) THEN <<s>>
  ELSE LET i == IndexOf(s, sep)
       IN <<SubSeq(s, 1, i-1)>> \o Split(SubSeq(s, i+1, Len(s)), sep)

\* a part outside the parentheses is one role-name token
TokenText(s) == IF Len(s) = 1 THEN s[1] ELSE ""

ParsePart(part) ==
  IF InSeq(part, "(") /\ InSeq(part, ")")
  THEN LET idx1 == IndexOf(part, "(")
           idx2 == IndexOf(part, ")")
           rname == TokenText(SubSeq(part, 1, idx1-1))
           prio_str == SubSeq(part, idx1+1, idx2-1)
           prio == IF IsIntStr(prio_str) THEN StrToInt(prio_str) ELSE 1
       IN <<rname, prio>>
  ELSE <<TokenText(part), 1>>

_parse_roles_with_priority(roles_str) ==
  IF roles_str = <<>> THEN <<>>
  ELSE LET parts == Split(roles_str, "|")
       IN [i \in 1..Len(parts) |-> ParsePart(parts[i])]

RECURSIVE _roles_to_string(_)
_roles_to_string(role_list) ==
  IF role_list = <<>> THEN <<>>
  ELSE LET rp == role_list[1]
           part == <<rp[1], "(">> \o IntToStr(rp[2]) \o <<")">>
       IN IF Len(role_list) = 1 THEN part
          ELSE part \o <<"|">> \o _roles_to_string(Tail(role_list))

(***************************************************************************)
(* Dict helpers: all_players[name], teams[team_id].                        *)
(***************************************************************************)
HasPlayer(ap, n) == \E i \in 1..Len(ap) : ap[i].name = n

PlayerInfo(ap, n) == ap[CHOOSE i \in 1..Len(ap) : ap[i].name = n]

\* all_players[n] = {"mmr": m, "roles": rs}: overwrite in place or append
PlayerPut(ap, n, m, rs) ==
  LET rec == [name |-> n, mmr |-> m, roles |-> rs]
  IN IF HasPlayer(ap, n)
     THEN [i \in 1..Len(ap) |-> IF ap[i].name = n THEN rec ELSE ap[i]]
     ELSE Append(ap, rec)

HasTeam(ts, tid) == \E i \in 1..Len(ts) : ts[i].team_id = tid

TeamIndex(ts, tid) == CHOOSE i \in 1..Len(ts) : ts[i].team_id = tid

TeamData(ts, tid) == ts[TeamIndex(ts, tid)]

\* players_by_role[rname].append(n), creating the key when it is missing
PoolAppend(pbr, rname, n) ==
  IF rname \in DOMAIN pbr
  THEN [pbr EXCEPT ![rname] = Append(@, n)]
  ELSE pbr @@ (rname :> <<n>>)

RECURSIVE PoolAppendAll(_, _, _)
PoolAppendAll(pbr, role_list, n) ==
  IF role_list = <<>> THEN pbr
  ELSE PoolAppendAll(PoolAppend(pbr, role_list[1][1], n), Tail(role_list), n)

RECURSIVE SumMmr(_, _)
SumMmr(ap, players) ==
  IF players = <<>> THEN 0
  ELSE PlayerInfo(ap, players[1][1]).mmr + SumMmr(ap, Tail(players))

\* mmr_sum / len(players) as a fixed-point float
Mean(ap, players) == (SumMmr(ap, players) * SCALE) \div Len(players)

RECURSIVE TotalEntries(_)
TotalEntries(ts) ==
  IF ts = <<>> THEN 0 ELSE Len(ts[1].players) + TotalEntries(Tail(ts))

(***************************************************************************)
(* register_team                                                           *)
(***************************************************************************)
register_team(ts, tid) ==
  IF HasTeam(ts, tid) THEN ts
  ELSE Append(ts, [team_id |-> tid, players |-> <<>>, average_mmr |-> 0])

RECURSIVE RegisterAll(_, _)
RegisterAll(ts, tids) ==
  IF tids = <<>> THEN ts
  ELSE RegisterAll(register_team(ts, tids[1]), Tail(tids))

(***************************************************************************)
(* load_player_data: one CSV row after the other.                          *)
(***************************************************************************)
RECURSIVE LoadPlayerRows(_, _, _)
LoadPlayerRows(rows, ap, pbr) ==
  IF rows = <<>> THEN [ap |-> ap, pbr |-> pbr, err |-> FALSE]
  ELSE LET row == rows[1]
           parsed == _parse_roles_with_priority(row.roles)
       IN IF ~IsIntStr(row.mmr)
          \* int(row["mmr"]) raises ValueError: the rows read so far stay
          THEN [ap |-> ap, pbr |-> pbr, err |-> TRUE]
          ELSE LoadPlayerRows(Tail(rows),
                              PlayerPut(ap, row.name, StrToInt(row.mmr), parsed),
                              PoolAppendAll(pbr, parsed, row.name))

EmptyPools == [r \in {roles[i] : i \in 1..Len(roles)} |-> <<>>]

load_player_data == LoadPlayerRows(player_data_csv, <<>>, EmptyPools)

NoFile == [exists |-> FALSE, rows |-> <<>>]

\* the pointer speed, in 1/SCALE, below which the animation ends
StopVel == 200

\* the window before any spin: no animation, no segments
GuiIdle ==
  [window |-> "new", bouncing |-> FALSE, pointer_vel |-> 0, loops |-> 0,
   animation_frame |-> FALSE, scale_segments |-> <<>>,
   pick_team |-> None, pick_role |-> None, segs |-> <<>>,
   completions |-> 0, cancelled |-> FALSE, shown |-> None]

\* the draft after construction
Fresh ==
  /\ all_players = load_player_data.ap
  /\ players_by_role = load_player_data.pbr
  /\ teams = RegisterAll(<<>>, default_teams)
  /\ draft_history = <<>>
  /\ remaining_csv = NoFile
  /\ teams_csv = NoFile
  /\ ret = [op |-> "init", value |-> None]

Init ==
  /\ Fresh
  /\ gui = GuiIdle

RegisterTeam(tid) ==
  /\ teams' = register_team(teams, tid)
  /\ ret' = [op |-> "register_team", value |-> None]
  /\ UNCHANGED <<all_players, players_by_role, draft_history, remaining_csv, teams_csv, gui>>

(***************************************************************************)
(* add_captain_to_team                                                     *)
(***************************************************************************)
\* faulty variant: the roster entry is appended and the average left as it was
AddCaptainStaleAverage(team_id, captain_name, captain_mmr) ==
  /\ LET ts1 == register_team(teams, team_id)
         ap1 == IF HasPlayer(all_players, captain_name) THEN all_players
                ELSE PlayerPut(all_players, captain_name, captain_mmr, <<>>)
         i == TeamIndex(ts1, team_id)
     IN /\ all_players' = ap1
        /\ teams' = [ts1 EXCEPT ![i].players = Append(@, <<captain_name, Captain>>)]
        /\ draft_history' = Append(draft_history,
              [team_id |-> team_id, player_name |-> captain_name, role |-> Captain])
  /\ ret' = [op |-> "add_captain", value |-> None]
  /\ UNCHANGED <<players_by_role, remaining_csv, teams_csv, gui>>

AddCaptain(team_id, captain_name, captain_mmr) ==
  /\ LET ts1 == register_team(teams, team_id)
         ap1 == IF HasPlayer(all_players, captain_name) THEN all_players
                ELSE PlayerPut(all_players, captain_name, captain_mmr, <<>>)
         i == TeamIndex(ts1, team_id)
         plist == Append(ts1[i].players, <<captain_name, Captain>>)
         count == Len(plist)
         avg == IF count > 0 THEN Mean(ap1, plist) ELSE 0
     IN /\ all_players' = ap1
        /\ teams' = [ts1 EXCEPT ![i] = [@ EXCEPT !.players = plist, !.average_mmr = avg]]
        /\ draft_history' = Append(draft_history,
              [team_id |-> team_id, player_name |-> captain_name, role |-> Captain])
  /\ ret' = [op |-> "add_captain", value |-> None]
  /\ UNCHANGED <<players_by_role, remaining_csv, teams_csv, gui>>

(***************************************************************************)
(* undo_last_pick                                                          *)
(***************************************************************************)
\* faulty variant: pops the oldest event instead of the newest
undo_oldest_pick(pbr, ts, ap, hist) ==
  IF hist = <<>>
  THEN [value |-> None, pbr |-> pbr, ts |-> ts, hist |-> hist]
  ELSE LET first == Head(hist)
           i == TeamIndex(ts, first.team_id)
           entry == <<first.player_name, first.role>>
           plist == IF InSeq(ts[i].players, entry)
                    THEN ListRemove(ts[i].players, entry) ELSE ts[i].players
           avg == IF plist # <<>> THEN Mean(ap, plist) ELSE 0
       IN [value |-> first.player_name,
           pbr |-> PoolAppendAll(pbr, PlayerInfo(ap, first.player_name).roles,
                                 first.player_name),
           ts |-> [ts EXCEPT ![i] = [@ EXCEPT !.players = plist, !.average_mmr = avg]],
           hist |-> Tail(hist)]

\* faulty variant: the empty-history return comes after the average reset
undo_resets_averages(pbr, ts, ap, hist) ==
  IF hist = <<>>
  THEN [value |-> None, pbr |-> pbr,
        ts |-> [i \in 1..Len(ts) |-> [ts[i] EXCEPT !.average_mmr = 0]],
        hist |-> hist]
  ELSE LET last == Last(hist)
           i == TeamIndex(ts, last.team_id)
           entry == <<last.player_name, last.role>>
           plist == IF InSeq(ts[i].players, entry)
                    THEN ListRemove(ts[i].players, entry) ELSE ts[i].players
           avg == IF plist # <<>> THEN Mean(ap, plist) ELSE 0
       IN [value |-> last.player_name,
           pbr |-> PoolAppendAll(pbr, PlayerInfo(ap, last.player_name).roles,
                                 last.player_name),
           ts |-> [ts EXCEPT ![i] = [@ EXCEPT !.players = plist, !.average_mmr = avg]],
           hist |-> Front(hist)]

\* faulty variant: restores the player to the pool of the drafted role only
undo_restores_drafted_role(pbr, ts, ap, hist) ==
  IF hist = <<>>
  THEN [value |-> None, pbr |-> pbr, ts |-> ts, hist |-> hist]
  ELSE LET last == Last(hist)
           i == TeamIndex(ts, last.team_id)
           entry == <<last.player_name, last.role>>
           plist == IF InSeq(ts[i].players, entry)
                    THEN ListRemove(ts[i].players, entry) ELSE ts[i].players
           avg == IF plist # <<>> THEN Mean(ap, plist) ELSE 0
       IN [value |-> last.player_name,
           pbr |-> IF last.role \in DOMAIN pbr
                   THEN PoolAppend(pbr, last.role, last.player_name) ELSE pbr,
           ts |-> [ts EXCEPT ![i] = [@ EXCEPT !.players = plist, !.average_mmr = avg]],
           hist |-> Front(hist)]

\* the return value and the state undo_last_pick leaves
undo_last_pick(pbr, ts, ap, hist) ==
  IF hist = <<>>
  THEN [value |-> None, pbr |-> pbr, ts |-> ts, hist |-> hist]
  ELSE LET last == Last(hist)
           tid == last.team_id
           pname == last.player_name
           role == last.role
           i == TeamIndex(ts, tid)
           plist == IF InSeq(ts[i].players, <<pname, role>>)
                    THEN ListRemove(ts[i].players, <<pname, role>>)
                    ELSE ts[i].players
           avg == IF plist # <<>> THEN Mean(ap, plist) ELSE 0
       IN [value |-> pname,
           pbr |-> PoolAppendAll(pbr, PlayerInfo(ap, pname).roles, pname),
           ts |-> [ts EXCEPT ![i] = [@ EXCEPT !.players = plist, !.average_mmr = avg]],
           hist |-> Front(hist)]

UndoLastPick ==
  LET r == undo_last_pick(players_by_role, teams, all_players, draft_history)
  IN /\ players_by_role' = r.pbr
     /\ teams' = r.ts
     /\ draft_history' = r.hist
     /\ ret' = [op |-> "undo", value |-> r.value]
     /\ UNCHANGED <<all_players, remaining_csv, teams_csv, gui>>

(***************************************************************************)
(* probability_calc.py in fixed point.                                     *)
(***************************************************************************)
Abs(x) == IF x < 0 THEN 0 - x ELSE x

Sq(y) == (y * y) \div SCALE

\* math.exp(z): (1 + z/16)^16 inside [-7, 7], saturated outside
ExpFP(z) ==
  IF z > 7 * SCALE THEN 1100 * SCALE
  ELSE IF z < 0 - 7 * SCALE THEN 0
  ELSE Sq(Sq(Sq(Sq(SCALE + z \div 16))))

\* math.exp raises OverflowError when its argument exceeds ln(DBL_MAX) ~ 709.782
ExpOverflows(ratio, midpoint, slope) ==
  slope > 0 /\ ratio - midpoint > (709782 * SCALE) \div slope

logistic_ratio_weight(ratio, midpoint, slope) ==
  (SCALE * SCALE) \div (SCALE + ExpFP((slope * (ratio - midpoint)) \div SCALE))

get_role_preference_factor(player_info, role, preference_weights) ==
  LET roles_list == player_info.roles
      hits == {i \in 1..Len(roles_list) : roles_list[i][1] = role}
  IN IF hits = {} THEN 0
     ELSE LET i == CHOOSE k \in hits : \A j \in hits : k <= j
              prio == roles_list[i][2]
          IN IF prio \in DOMAIN preference_weights THEN preference_weights[prio] ELSE 0

\* d[k] = v on an insertion-ordered dict of [p, v] entries
ProbPut(d, k, v) ==
  IF \E i \in 1..Len(d) : d[i].p = k
  THEN [i \in 1..Len(d) |-> IF d[i].p = k THEN [p |-> k, v |-> v] ELSE d[i]]
  ELSE Append(d, [p |-> k, v |-> v])

RECURSIVE SumValues(_)
SumValues(d) == IF d = <<>> THEN 0 ELSE d[1].v + SumValues(Tail(d))

\* the loop over players_in_role that fills raw_weights; err is the
\* OverflowError of math.exp leaving the loop
RECURSIVE RawWeights(_, _, _, _, _)
RawWeights(players_in_role, ap, role, ideal_mmr, acc) ==
  IF players_in_role = <<>> THEN [err |-> FALSE, d |-> acc]
  ELSE LET player_name == players_in_role[1]
           info == PlayerInfo(ap, player_name)
           pmmr == info.mmr * SCALE
           pref_factor == get_role_preference_factor(info, role, role_preference_weights)
           diff == Abs(pmmr - ideal_mmr)
           ratio == IF ideal_mmr <= 0 THEN 99999 * SCALE
                    ELSE (diff * SCALE) \div ideal_mmr
           mmr_weight == logistic_ratio_weight(ratio, logistic_midpoint, logistic_slope)
           final_w == IF blend_alpha = SCALE
                      THEN (mmr_weight * pref_factor) \div SCALE
                      ELSE (blend_alpha * mmr_weight
                            + (SCALE - blend_alpha) * pref_factor) \div SCALE
       IN IF pref_factor <= 0
          THEN RawWeights(Tail(players_in_role), ap, role, ideal_mmr, acc)
          ELSE IF ExpOverflows(ratio, logistic_midpoint, logistic_slope)
          THEN [err |-> TRUE, d |-> acc]
          ELSE RawWeights(Tail(players_in_role), ap, role, ideal_mmr,
                          ProbPut(acc, player_name, final_w))

NoProbs == [err |-> FALSE, probs |-> <<>>]

\* the ideal rating of the next pick, for a team with picks left
IdealMmr(team_data) ==
  LET current_n == Len(team_data.players)
      current_sum == team_data.average_mmr * current_n
      picks_left == team_size - current_n
      desired_total_for_full_team == team_size * global_average_mmr * SCALE
      remaining_mmr == desired_total_for_full_team - current_sum
  IN remaining_mmr \div picks_left

\* faulty variant: the uniform share base_randomness / N is left out
calc_without_uniform_portion(team_data, role, ap, players_in_role, base_randomness) ==
  LET current_n == Len(team_data.players)
      picks_left == team_size - current_n
      ideal_mmr == IdealMmr(team_data)
      raw == RawWeights(players_in_role, ap, role, ideal_mmr, <<>>)
      raw_weights == raw.d
      total_w == SumValues(raw_weights)
      N == Len(raw_weights)
  IN IF picks_left <= 0 \/ raw.err \/ raw_weights = <<>> \/ total_w <= 0
     THEN [err |-> raw.err, probs |-> <<>>]
     ELSE [err |-> FALSE,
           probs |-> [i \in 1..N |->
              [p |-> raw_weights[i].p,
               v |-> (((raw_weights[i].v * SCALE) \div total_w)
                        * (SCALE - base_randomness)) \div SCALE]]]

calc_compute_probabilities(team_data, role, ap, players_in_role, base_randomness) ==
  LET current_n == Len(team_data.players)
      picks_left == team_size - current_n
      ideal_mmr == IdealMmr(team_data)
      raw == RawWeights(players_in_role, ap, role, ideal_mmr, <<>>)
      raw_weights == raw.d
      total_w == SumValues(raw_weights)
      N == Len(raw_weights)
      final_probs == [i \in 1..N |->
          [p |-> raw_weights[i].p,
           v |-> (((raw_weights[i].v * SCALE) \div total_w) * (SCALE - base_randomness))
                    \div SCALE
                 + base_randomness \div N]]
      s == SumValues(final_probs)
  IN IF picks_left <= 0 THEN NoProbs
     ELSE IF raw.err THEN [err |-> TRUE, probs |-> <<>>]
     ELSE IF raw_weights = <<>> THEN NoProbs
     ELSE IF total_w <= 0
     THEN [err |-> FALSE,
           probs |-> [i \in 1..N |-> [p |-> raw_weights[i].p, v |-> SCALE \div N]]]
     ELSE IF s # SCALE
     THEN [err |-> FALSE,
           probs |-> [i \in 1..N |-> [p |-> final_probs[i].p,
                                      v |-> (final_probs[i].v * SCALE) \div s]]]
     ELSE [err |-> FALSE, probs |-> final_probs]

\* faulty variant: the distribution is computed as for a team with no player
compute_for_empty_roster(ts, pbr, ap, team_id, role) ==
  IF ~HasTeam(ts, team_id) THEN NoProbs
  ELSE IF role \notin DOMAIN pbr THEN NoProbs
  ELSE IF pbr[role] = <<>> THEN NoProbs
  ELSE LET team_data == [TeamData(ts, team_id) EXCEPT !.players = <<>>,
                                                      !.average_mmr = 0]
       IN calc_compute_probabilities(team_data, role, ap, pbr[role],
                                     randomness_levels[0])

\* DraftLogic.compute_probabilities
compute_probabilities(ts, pbr, ap, team_id, role) ==
  IF ~HasTeam(ts, team_id) THEN NoProbs
  ELSE IF role \notin DOMAIN pbr THEN NoProbs
  ELSE IF pbr[role] = <<>> THEN NoProbs
  ELSE LET team_data == TeamData(ts, team_id)
           n == Len(team_data.players)
           base_rand == IF n \in DOMAIN randomness_levels
                        THEN randomness_levels[n] ELSE DefaultRandomness
       IN calc_compute_probabilities(team_data, role, ap, pbr[role], base_rand)

\* faulty variant: the ideal rating of an empty team, whatever the roster
get_ideal_ignores_roster(ts, team_id) ==
  IF ~HasTeam(ts, team_id) THEN [err |-> TRUE, value |-> 0]
  ELSE [err |-> FALSE, value |-> global_average_mmr * SCALE]

\* DraftLogic.get_ideal_mmr_for_pick: err is the KeyError of teams[team_id]
get_ideal_mmr_for_pick(ts, team_id) ==
  IF ~HasTeam(ts, team_id) THEN [err |-> TRUE, value |-> 0]
  ELSE LET team_data == TeamData(ts, team_id)
           current_n == Len(team_data.players)
           current_sum == team_data.average_mmr * current_n
           desired_total_for_full_team == team_size * global_average_mmr * SCALE
           remaining_mmr == desired_total_for_full_team - current_sum
           picks_left == team_size - current_n
       IN IF current_n >= team_size THEN [err |-> FALSE, value |-> 0]
          ELSE [err |-> FALSE, value |-> remaining_mmr \div picks_left]

(***************************************************************************)
(* build_segments: cumulative (player, start, end) in 1/SCALE percent.     *)
(***************************************************************************)
\* faulty variant: the running start is not advanced past a segment
RECURSIVE BuildFromSameStart(_, _)
BuildFromSameStart(probs, current) ==
  IF probs = <<>> THEN <<>>
  ELSE LET width == probs[1].v * 100
       IN <<[p |-> probs[1].p, startp |-> current, endp |-> current + width]>>
          \o BuildFromSameStart(Tail(probs), current)

RECURSIVE BuildFrom(_, _)
BuildFrom(probs, current) ==
  IF probs = <<>> THEN <<>>
  ELSE LET width == probs[1].v * 100
       IN <<[p |-> probs[1].p, startp |-> current, endp |-> current + width]>>
          \o BuildFrom(Tail(probs), current + width)

build_segments(probs) == BuildFrom(probs, 0)

(***************************************************************************)
(* pick_player_from_position                                               *)
(***************************************************************************)
_remove_player(pbr, p) ==
  [r \in DOMAIN pbr |-> IF InSeq(pbr[r], p) THEN ListRemove(pbr[r], p) ELSE pbr[r]]

\* faulty variant: appends the entry and keeps the old average
_assign_keeps_average(ts, ap, team_id, pname, role) ==
  LET i == TeamIndex(ts, team_id)
  IN [ts EXCEPT ![i].players = Append(@, <<pname, role>>)]

_assign_to_team(ts, ap, team_id, pname, role) ==
  LET i == TeamIndex(ts, team_id)
      plist == Append(ts[i].players, <<pname, role>>)
  IN [ts EXCEPT ![i] = [@ EXCEPT !.players = plist, !.average_mmr = Mean(ap, plist)]]

\* indexes of the segments that contain the position
Hits(position_pct, segments) ==
  {i \in 1..Len(segments) :
     position_pct >= segments[i].startp /\ position_pct < segments[i].endp}

\* faulty variant: a position in no segment is clamped to the final segment
ResolveClamped(position_pct, segments) ==
  LET hits == Hits(position_pct, segments)
  IN IF hits = {}
     THEN (IF segments = <<>> THEN None ELSE segments[Len(segments)].p)
     ELSE segments[CHOOSE i \in hits : \A j \in hits : i <= j].p

Resolve(position_pct, segments) ==
  LET hits == Hits(position_pct, segments)
  IN IF hits = {} THEN None
     ELSE segments[CHOOSE i \in hits : \A j \in hits : i <= j].p

\* faulty variant: commits the pick without pushing the history event
pick_without_event(pbr, ts, ap, hist, team_id, role, position_pct, segments) ==
  LET p == Resolve(position_pct, segments)
  IN IF p = None
     THEN [value |-> None, pbr |-> pbr, ts |-> ts, hist |-> hist]
     ELSE [value |-> p,
           pbr |-> _remove_player(pbr, p),
           ts |-> _assign_to_team(ts, ap, team_id, p, role),
           hist |-> hist]

\* faulty variant: the history event carries the role of the pool the winner
\* was drawn from, the roster entry the role passed in
pick_records_pool_role(pbr, ts, ap, hist, team_id, role, position_pct, segments) ==
  LET p == Resolve(position_pct, segments)
      pool_roles == {r \in DOMAIN pbr : InSeq(pbr[r], p)}
      drawn == IF role \in pool_roles \/ pool_roles = {} THEN role
               ELSE CHOOSE r \in pool_roles : TRUE
  IN IF p = None
     THEN [value |-> None, pbr |-> pbr, ts |-> ts, hist |-> hist]
     ELSE IF ~HasTeam(ts, team_id)
     THEN [value |-> "KeyError", pbr |-> _remove_player(pbr, p), ts |-> ts, hist |-> hist]
     ELSE [value |-> p,
           pbr |-> _remove_player(pbr, p),
           ts |-> _assign_to_team(ts, ap, team_id, p, role),
           hist |-> Append(hist, [team_id |-> team_id, player_name |-> p,
                                  role |-> drawn])]

\* the return value and the state pick_player_from_position leaves; for a
\* team id that is not registered _assign_to_team raises KeyError after
\* _remove_player has run
pick_player_from_position(pbr, ts, ap, hist, team_id, role, position_pct, segments) ==
  LET p == Resolve(position_pct, segments)
  IN IF p = None
     THEN [value |-> None, pbr |-> pbr, ts |-> ts, hist |-> hist]
     ELSE IF ~HasTeam(ts, team_id)
     THEN [value |-> "KeyError", pbr |-> _remove_player(pbr, p), ts |-> ts, hist |-> hist]
     ELSE [value |-> p,
           pbr |-> _remove_player(pbr, p),
           ts |-> _assign_to_team(ts, ap, team_id, p, role),
           hist |-> Append(hist, [team_id |-> team_id, player_name |-> p,
                                  role |-> role])]

\* one spin: compute for spin_role, build the segments, then commit at
\* the pointer position with the role the caller passes
Spin(team_id, spin_role, role_inputs) ==
  LET res == compute_probabilities(teams, players_by_role, all_players,
                                   team_id, spin_role)
      segments == build_segments(res.probs)
  IN /\ IF res.err
        THEN /\ ret' = [op |-> "compute", value |-> "OverflowError"]
             /\ UNCHANGED <<players_by_role, teams, draft_history>>
        ELSE \E role \in role_inputs, position_pct \in Positions :
                LET r == pick_player_from_position(players_by_role, teams,
                            all_players, draft_history,
                            team_id, role, position_pct, segments)
                IN /\ players_by_role' = r.pbr
                   /\ teams' = r.ts
                   /\ draft_history' = r.hist
                   /\ ret' = [op |-> "pick", value |-> r.value]
     /\ UNCHANGED <<all_players, remaining_csv, teams_csv, gui>>

(***************************************************************************)
(* save_state: the two CSV files as sequences of rows.                     *)
(***************************************************************************)
Assigned(ts) ==
  UNION {{ts[i].players[j][1] : j \in 1..Len(ts[i].players)} : i \in 1..Len(ts)}

RECURSIVE RemainingRows(_, _)
RemainingRows(ap, assigned) ==
  IF ap = <<>> THEN <<>>
  ELSE (IF ap[1].name \notin assigned
        THEN <<[name |-> ap[1].name, mmr |-> IntToStr(ap[1].mmr),
                roles |-> _roles_to_string(ap[1].roles)]>>
        ELSE <<>>)
       \o RemainingRows(Tail(ap), assigned)

RosterRows(ap, tid, plist) ==
  [j \in 1..Len(plist) |->
     [team_id |-> tid, name |-> plist[j][1], assigned_role |-> plist[j][2],
      mmr |-> IntToStr(PlayerInfo(ap, plist[j][1]).mmr)]]

RECURSIVE TeamRows(_, _)
TeamRows(ap, ts) ==
  IF ts = <<>> THEN <<>>
  ELSE RosterRows(ap, ts[1].team_id, ts[1].players) \o TeamRows(ap, Tail(ts))

save_remaining(ap, ts) == [exists |-> TRUE, rows |-> RemainingRows(ap, Assigned(ts))]

save_teams(ap, ts) == [exists |-> TRUE, rows |-> TeamRows(ap, ts)]

SaveState ==
  /\ remaining_csv' = save_remaining(all_players, teams)
  /\ teams_csv' = save_teams(all_players, teams)
  /\ ret' = [op |-> "save", value |-> None]
  /\ UNCHANGED <<all_players, players_by_role, teams, draft_history, gui>>

(***************************************************************************)
(* load_state                                                              *)
(***************************************************************************)
\* one row of the teams file: create an unknown player without roles, take
\* the player out of the pools, append the roster entry
LoadTeamRow(st, row) ==
  LET ts1 == register_team(st.ts, row.team_id)
      ap1 == IF HasPlayer(st.ap, row.name) THEN st.ap
             ELSE PlayerPut(st.ap, row.name, StrToInt(row.mmr), <<>>)
      i == TeamIndex(ts1, row.team_id)
  IN [ap |-> ap1,
      pbr |-> _remove_player(st.pbr, row.name),
      ts |-> [ts1 EXCEPT ![i].players = Append(@, <<row.name, row.assigned_role>>)]]

RECURSIVE LoadTeamRows(_, _)
LoadTeamRows(st, rows) ==
  IF rows = <<>> THEN st ELSE LoadTeamRows(LoadTeamRow(st, rows[1]), Tail(rows))

\* assigned_data: the rows grouped by team id, groups in first-appearance order
RECURSIVE GroupByTeam(_)
GroupByTeam(rows) ==
  IF rows = <<>> THEN <<>>
  ELSE LET tid == rows[1].team_id
       IN SelectSeq(rows, LAMBDA r : r.team_id = tid)
          \o GroupByTeam(SelectSeq(rows, LAMBDA r : r.team_id # tid))

RecomputeAverages(ts, ap) ==
  [i \in 1..Len(ts) |->
     [ts[i] EXCEPT !.average_mmr =
        IF ts[i].players # <<>> THEN Mean(ap, ts[i].players) ELSE 0]]

\* err: int() raised ValueError on a row, which leaves the cleared draft with
\* the rows read before it
load_state(pbr, rem, tms) ==
  LET lp == LoadPlayerRows(rem.rows, <<>>, [r \in DOMAIN pbr |-> <<>>])
      st == LoadTeamRows([ap |-> lp.ap, pbr |-> lp.pbr, ts |-> <<>>],
                         GroupByTeam(tms.rows))
  IN IF lp.err \/ \E i \in 1..Len(tms.rows) : ~IsIntStr(tms.rows[i].mmr)
     THEN [ap |-> lp.ap, pbr |-> lp.pbr, ts |-> <<>>, err |-> TRUE]
     ELSE [ap |-> st.ap, pbr |-> st.pbr, ts |-> RecomputeAverages(st.ts, st.ap),
           err |-> FALSE]

\* faulty variant: the draft is cleared before the files are looked for
LoadStateClearsFirst ==
  IF ~(remaining_csv.exists /\ teams_csv.exists)
  THEN /\ all_players' = <<>>
       /\ players_by_role' = [r \in DOMAIN players_by_role |-> <<>>]
       /\ teams' = <<>>
       /\ draft_history' = <<>>
       /\ ret' = [op |-> "load", value |-> "missing"]
       /\ UNCHANGED <<remaining_csv, teams_csv, gui>>
  ELSE LET st == load_state(players_by_role, remaining_csv, teams_csv)
       IN /\ all_players' = st.ap
          /\ players_by_role' = st.pbr
          /\ teams' = st.ts
          /\ draft_history' = <<>>
          /\ ret' = [op |-> "load", value |-> IF st.err THEN "ValueError" ELSE None]
          /\ UNCHANGED <<remaining_csv, teams_csv, gui>>

\* faulty variant: the load leaves the history of the replaced draft
LoadStateKeepsHistory ==
  IF ~(remaining_csv.exists /\ teams_csv.exists)
  THEN /\ ret' = [op |-> "load", value |-> "missing"]
       /\ UNCHANGED <<all_players, players_by_role, teams, draft_history,
                      remaining_csv, teams_csv, gui>>
  ELSE LET st == load_state(players_by_role, remaining_csv, teams_csv)
       IN /\ all_players' = st.ap
          /\ players_by_role' = st.pbr
          /\ teams' = st.ts
          /\ ret' = [op |-> "load", value |-> IF st.err THEN "ValueError" ELSE None]
          /\ UNCHANGED <<draft_history, remaining_csv, teams_csv, gui>>

LoadState ==
  IF ~(remaining_csv.exists /\ teams_csv.exists)
  THEN /\ ret' = [op |-> "load", value |-> "missing"]
       /\ UNCHANGED <<all_players, players_by_role, teams, draft_history,
                      remaining_csv, teams_csv, gui>>
  ELSE LET st == load_state(players_by_role, remaining_csv, teams_csv)
       IN /\ all_players' = st.ap
          /\ players_by_role' = st.pbr
          /\ teams' = st.ts
          /\ draft_history' = <<>>
          /\ ret' = [op |-> "load", value |-> IF st.err THEN "ValueError" ELSE None]
          /\ UNCHANGED <<remaining_csv, teams_csv, gui>>

(***************************************************************************)
(* Exploration bounds, applied to the steps that add a roster entry.       *)
(***************************************************************************)
EntriesWithin(limit) == TotalEntries(teams') <= limit

DupRoom(name) ==
  \A r \in DOMAIN players_by_role : Occurrences(players_by_role[r], name) < MaxDup

RegisterStep == \E tid \in TeamIds : RegisterTeam(tid)

SpinStep ==
  \E tid \in TeamIds, sr \in SpinRoles : Spin(tid, sr, RoleInputs) /\ EntriesWithin(MaxEntries)

CaptainStep ==
  \E tid \in TeamIds, cn \in CaptainNames, cm \in CaptainMmrs :
     DupRoom(cn) /\ AddCaptain(tid, cn, cm) /\ EntriesWithin(MaxEntries)

\* the draft without persistence
Next ==
  \/ RegisterStep
  \/ SpinStep
  \/ CaptainStep
  \/ UndoLastPick

Spec == Init /\ [][Next]_vars

\* the draft with the snapshot files: one save_state per run, the spun
\* role is the requested role, captains are new names
SnapshotSpinStep ==
  \E tid \in TeamIds, sr \in RoleInputs :
     Spin(tid, sr, {sr}) /\ EntriesWithin(MaxEntries)

SnapshotCaptainStep ==
  \E tid \in TeamIds, cn \in NewCaptainNames, cm \in CaptainMmrs :
     AddCaptain(tid, cn, cm) /\ EntriesWithin(MaxEntries)

SaveStep == ~remaining_csv.exists /\ SaveState

NextSnapshot ==
  \/ RegisterStep
  \/ SnapshotSpinStep
  \/ SnapshotCaptainStep
  \/ UndoLastPick
  \/ SaveStep
  \/ LoadState

SpecSnapshot == Init /\ [][NextSnapshot]_vars

\* picks and undos only, from the freshly constructed draft
NextPicks ==
  \/ RegisterStep
  \/ SpinStep
  \/ UndoLastPick

SpecPicks == Init /\ [][NextPicks]_vars

\* the two files load_state is pointed at, as somebody else wrote them:
\* well-formed rows, rows whose mmr is no integer, and a teams file that
\* is not there
ExternalRemaining ==
  {[exists |-> TRUE, rows |-> rws] : rws \in
     {<<[name |-> "p2", mmr |-> <<"4", "0">>, roles |-> <<"mid">>]>>,
      <<[name |-> "p3", mmr |-> <<"5", "0">>, roles |-> <<"carry">>]>>,
      <<[name |-> "p2", mmr |-> <<"4", "0">>, roles |-> <<"mid">>],
        [name |-> "p4", mmr |-> <<"x">>, roles |-> <<"mid">>],
        [name |-> "p3", mmr |-> <<"5", "0">>, roles |-> <<"carry">>]>>}}

ExternalTeams ==
  {NoFile} \cup
  {[exists |-> TRUE, rows |-> rws] : rws \in
     {<<>>,
      <<[team_id |-> "A", name |-> "p1", assigned_role |-> "carry", mmr |-> <<"3", "0">>]>>,
      <<[team_id |-> "A", name |-> "p1", assigned_role |-> "carry", mmr |-> <<"x">>]>>}}

WriteFilesStep ==
  /\ ~remaining_csv.exists
  /\ \E rem \in ExternalRemaining, tms \in ExternalTeams :
        /\ remaining_csv' = rem
        /\ teams_csv' = tms
  /\ ret' = [op |-> "write_files", value |-> None]
  /\ UNCHANGED <<all_players, players_by_role, teams, draft_history, gui>>

\* spin_clicked with an empty pool for the requested role: the wheel is
\* computed for the fallback role the user names, the pick is made with
\* the requested role
FallbackSpinStep ==
  \E tid \in TeamIds, role \in RoleInputs, fallback_role \in RoleInputs :
     /\ HasTeam(teams, tid)
     /\ players_by_role[role] = <<>>
     /\ Spin(tid, fallback_role, {role})
     /\ EntriesWithin(MaxEntries)

\* the draft with load_state reading files it did not write
NextFiles ==
  \/ RegisterStep
  \/ SnapshotSpinStep
  \/ FallbackSpinStep
  \/ UndoLastPick
  \/ WriteFilesStep
  \/ LoadState

SpecFiles == Init /\ [][NextFiles]_vars

(***************************************************************************)
(* The spin flow of the three windows: draft_gui.py ("classic"),           *)
(* new_draft_gui.py with WheelDisplay ("new") and modern_draft_wheel_ui.py *)
(* with ModernWheel ("modern").  The team and role selected in the window  *)
(* are inputs of each handler.  The pointer position is an input of the    *)
(* frame that ends the animation; the velocity carries the frame count.    *)
(* gui.segs, gui.completions, gui.cancelled and gui.shown record what the  *)
(* handlers did since the last spin start (gui.segs is the closure         *)
(* variable segs of the modern window's spin handler as well).             *)
(***************************************************************************)
Windows == {"classic", "new", "modern"}

\* friction factors and starting speeds, in 1/SCALE
Frictions == {250, 500}

Velocities == {1000}

\* WheelDisplay.clear / ModernWheel.clear
wheel_clear(g) ==
  IF g.window = "modern"
  THEN [g EXCEPT !.scale_segments = <<>>,
                 !.loops = IF g.animation_frame /\ @ > 0 THEN @ - 1 ELSE @,
                 !.animation_frame = FALSE,
                 !.bouncing = FALSE,
                 !.cancelled = @ \/ g.bouncing]
  ELSE [g EXCEPT !.scale_segments = <<>>]

\* the window a preview leaves when compute_probabilities returned res
preview_result(g, res) ==
  IF res.err THEN [gui |-> g, value |-> "OverflowError"]
  ELSE IF res.probs = <<>>
  THEN [gui |-> IF g.window = "classic" THEN g ELSE wheel_clear(g), value |-> None]
  ELSE [gui |-> [g EXCEPT !.scale_segments = build_segments(res.probs)],
        value |-> None]

\* preview_slices / _preview_probabilities on the given draft
preview_slices(g, pbr, ts, ap, team_id, role, fallback_role) ==
  IF g.window # "modern" /\ ~HasTeam(ts, team_id)
  THEN [gui |-> g, value |-> None]
  ELSE preview_result(g,
         compute_probabilities(ts, pbr, ap, team_id,
            IF g.window # "modern" /\ role \in DOMAIN pbr /\ pbr[role] = <<>>
            THEN fallback_role ELSE role))

\* refresh_all: the modern window previews the current selection again
refresh_all(g, pbr, ts, ap, team_id, role) ==
  IF g.window = "modern"
  THEN preview_slices(g, pbr, ts, ap, team_id, role, role).gui
  ELSE g

\* the frame ends the animation: the pointer is slower than StopVel after it
Ends(g, friction) ==
  g.bouncing /\ (g.pointer_vel * friction) \div SCALE < StopVel

\* the window when the pointer has stopped
Stopped(g, friction) ==
  [g EXCEPT !.bouncing = FALSE,
            !.pointer_vel = (g.pointer_vel * friction) \div SCALE,
            !.completions = @ + 1]

\* the window when the pointer moves on and the next frame is scheduled
Slowed(g, friction) ==
  [g EXCEPT !.pointer_vel = (g.pointer_vel * friction) \div SCALE,
            !.animation_frame = (g.window = "modern")]

\* a frame that leaves the draft alone
NoPick(g, pbr, ts, hist, resched) ==
  [gui |-> g, pbr |-> pbr, ts |-> ts, hist |-> hist,
   value |-> None, done |-> FALSE, resched |-> resched]

\* update_bounce's completion branch / _on_spin_complete: r is what
\* pick_player_from_position returned and left
on_spin_complete(g, r) ==
  [gui |-> [g EXCEPT !.shown = IF r.value \in {None, "KeyError"} THEN None
                               ELSE r.value],
   pbr |-> r.pbr, ts |-> r.ts, hist |-> r.hist,
   value |-> r.value, done |-> TRUE, resched |-> FALSE]

\* ModernWheel._finish_spin with the closure on_spin_complete: the wheel
\* shows selected_player; r is what the closure's pick returned and left
\* (the draft as it was when nobody was selected)
_finish_spin(g, selected_player, r, ap, team_id, role) ==
  [gui |-> IF selected_player = None \/ r.value = "KeyError"
           THEN [g EXCEPT !.shown = selected_player]
           ELSE refresh_all([g EXCEPT !.shown = selected_player],
                            r.pbr, r.ts, ap, team_id, role),
   pbr |-> r.pbr, ts |-> r.ts, hist |-> r.hist,
   value |-> r.value, done |-> TRUE, resched |-> FALSE]

\* faulty variant: a frame runs whether or not the wheel is still bouncing
update_bounce_unguarded(g, pbr, ts, ap, hist, friction, position_pct, team_id, role) ==
  IF (g.pointer_vel * friction) \div SCALE >= StopVel
  THEN NoPick(Slowed(g, friction), pbr, ts, hist, TRUE)
  ELSE on_spin_complete(Stopped(g, friction),
          pick_player_from_position(pbr, ts, ap, hist, g.pick_team,
             g.pick_role, position_pct, g.scale_segments))

\* one frame of update_bounce / _update_bounce / update_animation, with the
\* completion handler it calls when the pointer has slowed down
update_bounce(g, pbr, ts, ap, hist, friction, position_pct, team_id, role) ==
  IF ~g.bouncing THEN NoPick(g, pbr, ts, hist, FALSE)
  ELSE IF ~Ends(g, friction)
  THEN NoPick(Slowed(g, friction), pbr, ts, hist, TRUE)
  ELSE IF g.window # "modern"
  THEN on_spin_complete(Stopped(g, friction),
          pick_player_from_position(pbr, ts, ap, hist, g.pick_team,
             g.pick_role, position_pct, g.scale_segments))
  ELSE _finish_spin(Stopped(g, friction),
          Resolve(position_pct, g.scale_segments),
          IF Resolve(position_pct, g.scale_segments) = None
          THEN [value |-> None, pbr |-> pbr, ts |-> ts, hist |-> hist]
          ELSE pick_player_from_position(pbr, ts, ap, hist, g.pick_team,
                  g.pick_role, position_pct, g.segs),
          ap, team_id, role)

\* the selections refresh_all can find in the window
Selections(g) ==
  IF g.window = "modern" THEN TeamIds \X RoleInputs ELSE {<<None, None>>}

\* the draft and the window after a frame with result r
FrameResult(r, op) ==
  /\ gui' = [r.gui EXCEPT !.loops = @ + (IF r.resched THEN 1 ELSE 0)]
  /\ players_by_role' = r.pbr
  /\ teams' = r.ts
  /\ draft_history' = r.hist
  /\ ret' = [op |-> IF r.done THEN "complete" ELSE op, value |-> r.value]

\* a frame of the window g with the pointer position and the selection the
\* completion handler may need
RunFrame(g, friction, op) ==
  \E position_pct \in (IF Ends(g, friction) THEN Positions ELSE {0}),
     sel \in (IF Ends(g, friction) THEN Selections(g) ELSE {<<None, None>>}) :
     FrameResult(update_bounce(g, players_by_role, teams, all_players,
                    draft_history, friction, position_pct, sel[1], sel[2]), op)

\* a timer callback scheduled with after(20, ...) runs
BounceFrame ==
  /\ gui.loops > 0
  /\ \E friction \in Frictions :
        RunFrame([gui EXCEPT !.loops = @ - 1], friction, "frame")
  /\ UNCHANGED <<all_players, remaining_csv, teams_csv>>

\* the window when the spin starts on the segments segs
SpinStart(g, segs, team_id, role, pointer_vel) ==
  [g EXCEPT !.scale_segments = segs, !.segs = segs,
            !.pick_team = team_id, !.pick_role = role,
            !.pointer_vel = pointer_vel,
            !.bouncing = TRUE,
            !.completions = IF g.bouncing THEN @ ELSE 0,
            !.cancelled = IF g.bouncing THEN @ ELSE FALSE,
            !.shown = IF g.bouncing THEN @ ELSE None]

\* spin_clicked from the point where compute_probabilities returned res
SpinOn(res, team_id, role) ==
  IF res.err
  THEN /\ ret' = [op |-> "spin", value |-> "OverflowError"]
       /\ UNCHANGED <<players_by_role, teams, draft_history, gui>>
  ELSE /\ res.probs # <<>>
       /\ \E pointer_vel \in Velocities, friction \in Frictions :
             RunFrame(SpinStart(gui, build_segments(res.probs), team_id, role,
                                pointer_vel), friction, "spin")

\* spin_clicked / _on_spin_clicked with the first frame it runs itself
SpinClicked ==
  /\ gui.loops < MaxLoops
  /\ \E team_id \in TeamIds, role \in RoleInputs :
        /\ HasTeam(teams, team_id)
        /\ ~(gui.window = "modern" /\ players_by_role[role] = <<>>)
        /\ \E actual_role_to_spin \in (IF players_by_role[role] = <<>>
                                       THEN RoleInputs ELSE {role}) :
              SpinOn(compute_probabilities(teams, players_by_role, all_players,
                                           team_id, actual_role_to_spin),
                     team_id, role)
  /\ UNCHANGED <<all_players, remaining_csv, teams_csv>>

\* the stable sort by rating, highest first, of one pool
RECURSIVE SortedByMmr(_, _)
SortedByMmr(ap, plist) ==
  IF plist = <<>> THEN <<>>
  ELSE LET rest == SortedByMmr(ap, Tail(plist))
           m == PlayerInfo(ap, plist[1]).mmr
           before == {i \in 1..Len(rest) : PlayerInfo(ap, rest[i]).mmr > m}
           k == Cardinality(before)
       IN SubSeq(rest, 1, k) \o <<plist[1]>> \o SubSeq(rest, k + 1, Len(rest))

\* DraftLogic.get_players_by_role: sorted copies of the pools
get_players_by_role(pbr, ap) == [r \in DOMAIN pbr |-> SortedByMmr(ap, pbr[r])]

\* the roster names of all teams, in order
RECURSIVE DraftedList(_)
DraftedList(ts) ==
  IF ts = <<>> THEN <<>> ELSE ts[1].players \o DraftedList(Tail(ts))

RECURSIVE SumPlayerMmr(_)
SumPlayerMmr(ap) == IF ap = <<>> THEN 0 ELSE ap[1].mmr + SumPlayerMmr(Tail(ap))

\* DraftLogic.get_pool_average_mmr
get_pool_average_mmr(ap, ts) ==
  LET undrafted == SelectSeq(ap, LAMBDA info : info.name \notin Assigned(ts))
  IN IF undrafted = <<>> THEN 0
     ELSE (SumPlayerMmr(undrafted) * SCALE) \div Len(undrafted)

\* DraftLogic.get_drafted_average_mmr
get_drafted_average_mmr(ap, ts) ==
  LET drafted_list == DraftedList(ts)
  IN IF drafted_list = <<>> THEN 0
     ELSE (SumMmr(ap, drafted_list) * SCALE) \div Len(drafted_list)

\* what the preview shows next to the wheel
preview_stats(ideal, ap, ts) ==
  IF ideal.err THEN <<>>
  ELSE <<ideal.value, get_pool_average_mmr(ap, ts), get_drafted_average_mmr(ap, ts)>>

\* the window after the preview r
PreviewResult(r, stats) ==
  /\ gui' = r.gui
  /\ ret' = [op |-> "preview", value |-> r.value, stats |-> stats]

\* the user selects a team or a role: the window previews the wheel
PreviewSlices ==
  /\ \E team_id \in TeamIds, role \in RoleInputs, fallback_role \in RoleInputs :
        PreviewResult(preview_slices(gui, players_by_role, teams, all_players,
                                     team_id, role, fallback_role),
                      preview_stats(get_ideal_mmr_for_pick(teams, team_id),
                                    all_players, teams))
  /\ UNCHANGED <<all_players, players_by_role, teams, draft_history,
                 remaining_csv, teams_csv>>

\* faulty variant: the role lists are sorted in the draft itself
RefreshSortsPools ==
  /\ players_by_role' = get_players_by_role(players_by_role, all_players)
  /\ ret' = [op |-> "refresh", value |-> players_by_role']
  /\ UNCHANGED <<all_players, teams, draft_history, remaining_csv, teams_csv, gui>>

\* refresh_roles_listboxes: the role lists are shown sorted by rating
RefreshRoleLists ==
  /\ ret' = [op |-> "refresh",
             value |-> get_players_by_role(players_by_role, all_players)]
  /\ UNCHANGED <<all_players, players_by_role, teams, draft_history,
                 remaining_csv, teams_csv, gui>>

\* the draft and the window after undo_last_pick returned r
UndoResult(r, team_id, role) ==
  /\ players_by_role' = r.pbr
  /\ teams' = r.ts
  /\ draft_history' = r.hist
  /\ ret' = [op |-> "undo", value |-> r.value]
  /\ gui' = refresh_all(gui, r.pbr, r.ts, all_players, team_id, role)

\* undo_pick / _on_undo_clicked
UndoPick ==
  /\ \E sel \in Selections(gui) :
        UndoResult(undo_last_pick(players_by_role, teams, all_players,
                                  draft_history), sel[1], sel[2])
  /\ UNCHANGED <<all_players, remaining_csv, teams_csv>>

\* the draft and the window after load_state read both files as st
LoadResult(st, team_id, role) ==
  /\ all_players' = st.ap
  /\ players_by_role' = st.pbr
  /\ teams' = st.ts
  /\ draft_history' = <<>>
  /\ ret' = [op |-> "load", value |-> IF st.err THEN "ValueError" ELSE None]
  /\ gui' = IF st.err THEN gui
            ELSE IF gui.window = "new" THEN wheel_clear(gui)
            ELSE refresh_all(gui, st.pbr, st.ts, st.ap, team_id, role)

\* load_draft / _on_load_clicked
LoadDraft ==
  /\ \E sel \in Selections(gui) :
        IF ~(remaining_csv.exists /\ teams_csv.exists)
        THEN /\ ret' = [op |-> "load", value |-> "missing"]
             /\ gui' = IF gui.window = "new" THEN wheel_clear(gui)
                       ELSE refresh_all(gui, players_by_role, teams, all_players,
                                        sel[1], sel[2])
             /\ UNCHANGED <<all_players, players_by_role, teams, draft_history>>
        ELSE LoadResult(load_state(players_by_role, remaining_csv, teams_csv),
                        sel[1], sel[2])
  /\ UNCHANGED <<remaining_csv, teams_csv>>

NextGui ==
  \/ SpinClicked
  \/ BounceFrame
  \/ PreviewSlices
  \/ RefreshRoleLists
  \/ UndoPick
  \/ SaveStep
  \/ LoadDraft

InitWindow(w) ==
  /\ Fresh
  /\ gui = [GuiIdle EXCEPT !.window = w]

SpecClassic == InitWindow("classic") /\ [][NextGui]_vars

SpecNew == InitWindow("new") /\ [][NextGui]_vars

SpecModern == InitWindow("modern") /\ [][NextGui]_vars

\* the animation alone, in any of the windows; the event loop runs every
\* timer callback that is due
NextAnim ==
  \/ SpinClicked
  \/ BounceFrame
  \/ PreviewSlices

SpecAnim ==
  /\ \E w \in Windows : InitWindow(w)
  /\ [][NextAnim]_vars
  /\ WF_vars(BounceFrame)

(***************************************************************************)
(* Properties.                                                             *)
(***************************************************************************)
PoolKeys == DOMAIN players_by_role

KnownNames == {all_players[i].name : i \in 1..Len(all_players)}

\* number of roster entries, over all teams, that carry the name
RECURSIVE RosterCount(_, _)
RosterCount(ts, n) ==
  IF ts = <<>> THEN 0
  ELSE Cardinality({j \in 1..Len(ts[1].players) : ts[1].players[j][1] = n})
       + RosterCount(Tail(ts), n)

RolesOf(n) ==
  LET rs == PlayerInfo(all_players, n).roles IN {rs[i][1] : i \in 1..Len(rs)}

\* C1: every player name occurs in at most one roster entry over all teams,
\* and no player who is on a team is a member of any role pool.
C1_TeamPoolExclusive ==
  \A n \in KnownNames :
     /\ RosterCount(teams, n) <= 1
     /\ RosterCount(teams, n) = 1 => \A r \in PoolKeys : ~InSeq(players_by_role[r], n)

\* C2: for every role R and known player p, p is in the pool of R, exactly
\* once, if and only if R is one of p's role priorities and p is on no team.
C2_PoolMembership ==
  \A n \in KnownNames : \A r \in PoolKeys \cup RolesOf(n) :
     LET k == IF r \in PoolKeys THEN Occurrences(players_by_role[r], n) ELSE 0
     IN /\ k <= 1
        /\ (k = 1) <=> (r \in RolesOf(n) /\ RosterCount(teams, n) = 0)

\* C3: each team's average_mmr is the mean of the ratings of the players in
\* its roster, and 0 for an empty roster.
C3_AverageConsistent ==
  \A i \in 1..Len(teams) :
     teams[i].average_mmr =
        IF teams[i].players = <<>> THEN 0
        ELSE (SumMmr(all_players, teams[i].players) * SCALE) \div Len(teams[i].players)

\* a load has rebuilt a team of two whose ratings differ
C3_Witness ==
  /\ ret.op = "load" /\ ret.value = None
  /\ \E i \in 1..Len(teams) :
        /\ Len(teams[i].players) = 2
        /\ PlayerInfo(all_players, teams[i].players[1][1]).mmr
              # PlayerInfo(all_players, teams[i].players[2][1]).mmr

\* C4: a successful pick or captain-add adds exactly one event, a successful
\* undo removes exactly one, a load empties the history, and a pick that
\* returns None (like every other call) leaves its length alone.
C4_HistoryLength ==
  [][LET n == Len(draft_history)
         m == Len(draft_history')
     IN CASE ret'.op = "pick" /\ ret'.value # None -> m = n + 1
          [] ret'.op = "add_captain" -> m = n + 1
          [] ret'.op = "undo" /\ ret'.value # None -> m = n - 1
          [] ret'.op = "load" /\ ret'.value = None -> m = 0
          [] OTHER -> m = n]_vars

\* two events were pushed and the later one undone: one live event is left
C4_Witness ==
  /\ ret.op = "undo" /\ ret.value # None
  /\ Len(draft_history) = 1
  /\ TotalEntries(teams) = 1

\* C5: an undo pops the most recent event, returns its player name and takes
\* one roster entry (that event's) from that event's team only.
C5_UndoLifo ==
  [][(ret'.op = "undo" /\ draft_history # <<>>) =>
       LET last == Last(draft_history)
           i == TeamIndex(teams, last.team_id)
       IN /\ ret'.value = last.player_name
          /\ draft_history' = Front(draft_history)
          /\ Len(teams') = Len(teams)
          /\ \A k \in 1..Len(teams) : k # i => teams'[k] = teams[k]
          /\ \E j \in 1..Len(teams[i].players) :
                /\ teams[i].players[j] = <<last.player_name, last.role>>
                /\ teams'[i].players = RemoveAt(teams[i].players, j)]_vars

\* the later of two events was undone, the earlier is still in the history
C5_Witness ==
  /\ ret.op = "undo" /\ ret.value # None
  /\ Len(draft_history) = 1
  /\ draft_history[1].player_name # ret.value

\* C6: undo with an empty history returns None and changes nothing.
C6_UndoEmptyNoop ==
  [][(ret'.op = "undo" /\ draft_history = <<>>) =>
       /\ ret'.value = None
       /\ UNCHANGED <<all_players, players_by_role, teams, draft_history>>]_vars

\* undo answered None while a loaded roster was there to be disturbed
C6_Witness ==
  /\ ret.op = "undo" /\ ret.value = None
  /\ draft_history = <<>>
  /\ \E i \in 1..Len(teams) : teams[i].average_mmr > 0

\* C7: a pick whose position lies inside no segment returns None and leaves
\* role pools, rosters, averages and history unchanged.
C7_MissNoChange ==
  \A tid \in TeamIds, sr \in SpinRoles :
     LET res == compute_probabilities(teams, players_by_role, all_players, tid, sr)
         segments == build_segments(res.probs)
     IN \A role \in RoleInputs, pos \in Positions :
           (~\E i \in 1..Len(segments) :
                pos >= segments[i].startp /\ pos < segments[i].endp) =>
              LET r == pick_player_from_position(players_by_role, teams, all_players,
                          draft_history, tid, role, pos, segments)
              IN /\ r.value = None
                 /\ r.pbr = players_by_role
                 /\ r.ts = teams
                 /\ r.hist = draft_history

\* a pick returned None in the middle of a draft
C7_Witness ==
  /\ ret.op = "pick" /\ ret.value = None
  /\ Len(draft_history) = 1
  /\ \E r \in PoolKeys : players_by_role[r] # <<>>

\* C8: a pick whose position lies inside a segment returns that segment's
\* player, leaves the player in no role pool, appends one (player, role)
\* entry to the named team, pushes one event, and changes no other roster.
C8_HitCommits ==
  \A tid \in TeamIds, sr \in SpinRoles :
     LET res == compute_probabilities(teams, players_by_role, all_players, tid, sr)
         segments == build_segments(res.probs)
     IN \A role \in RoleInputs, pos \in Positions :
        \A i \in 1..Len(segments) :
           (pos >= segments[i].startp /\ pos < segments[i].endp) =>
              LET p == segments[i].p
                  r == pick_player_from_position(players_by_role, teams, all_players,
                          draft_history, tid, role, pos, segments)
                  t == TeamIndex(teams, tid)
              IN /\ r.value = p
                 /\ \A rr \in DOMAIN r.pbr : ~InSeq(r.pbr[rr], p)
                 /\ Len(r.ts) = Len(teams)
                 /\ r.ts[t].players = Append(teams[t].players, <<p, role>>)
                 /\ \A k \in 1..Len(teams) : k # t => r.ts[k] = teams[k]
                 /\ r.hist = Append(draft_history,
                       [team_id |-> tid, player_name |-> p, role |-> role])

SameMembers(s, t) ==
  \A n \in KnownNames : Occurrences(s, n) = Occurrences(t, n)

\* C9: after N picks and N undos from the empty draft every roster is empty
\* with average 0 and every role pool has the members it started with; each
\* undo takes one (player, role) entry from the team and puts the player
\* back into the pool of every role in their role priorities.
C9_UndoRestores ==
  /\ [](draft_history = <<>> =>
          /\ \A i \in 1..Len(teams) :
                teams[i].players = <<>> /\ teams[i].average_mmr = 0
          /\ DOMAIN players_by_role = DOMAIN load_player_data.pbr
          /\ \A r \in PoolKeys :
                SameMembers(players_by_role[r], load_player_data.pbr[r]))
  /\ [][(ret'.op = "undo" /\ draft_history # <<>>) =>
          LET last == Last(draft_history)
              i == TeamIndex(teams, last.team_id)
          IN /\ Len(teams'[i].players) = Len(teams[i].players) - 1
             /\ Occurrences(teams'[i].players, <<last.player_name, last.role>>)
                   = Occurrences(teams[i].players, <<last.player_name, last.role>>) - 1
             /\ \A r \in RolesOf(last.player_name) :
                   /\ r \in DOMAIN players_by_role'
                   /\ InSeq(players_by_role'[r], last.player_name)]_vars

\* two picks were undone: the draft is empty again and the pools hold their
\* members in a new order
C9_Witness ==
  /\ ret.op = "undo" /\ ret.value # None
  /\ draft_history = <<>>
  /\ players_by_role["mid"] = <<"p2", "p1">>

\* the draft as load_state rebuilds it from what save_state writes now
Reloaded ==
  load_state(players_by_role, save_remaining(all_players, teams),
             save_teams(all_players, teams))

\* C10: save_state followed by load_state reproduces the same player records
\* (name, rating, role priorities), the same role pools and the same team
\* rosters and averages.
C10_RoundTrip ==
  LET st == Reloaded
  IN /\ {st.ap[i] : i \in 1..Len(st.ap)} = {all_players[i] : i \in 1..Len(all_players)}
     /\ DOMAIN st.pbr = DOMAIN players_by_role
     /\ \A r \in PoolKeys : SameMembers(st.pbr[r], players_by_role[r])
     /\ {st.ts[i] : i \in 1..Len(st.ts)} = {teams[i] : i \in 1..Len(teams)}

\* probability maps handed to build_segments: up to MaxKeys distinct players,
\* in any order, with probabilities from ProbValues
MaxKeys == 3

ProbValues == {0, SCALE \div 4, SCALE \div 2, SCALE}

ProbMaps ==
  UNION {{pm \in [1..n -> [p : {"p1", "p2", "p3", "p4"}, v : ProbValues]] :
            \A i, j \in 1..n : i # j => pm[i].p # pm[j].p} : n \in 0..MaxKeys}

BuildStep ==
  /\ \E pm \in ProbMaps :
        ret' = [op |-> "build_segments", probs |-> pm, value |-> build_segments(pm)]
  /\ UNCHANGED <<all_players, players_by_role, teams, draft_history,
                 remaining_csv, teams_csv, gui>>

\* the wheel alone: build_segments applied to one probability map (a call
\* keeps nothing of the call before it)
NextWheel == ret.op = "init" /\ BuildStep

SpecWheel == Init /\ [][NextWheel]_vars

\* C11: a successful load leaves exactly what the two files hold and an empty
\* history, and an undo issued right after it returns None and changes nothing.
C11_LoadClearsHistory ==
  /\ [](ret.op = "load" /\ ret.value = None =>
          LET st == load_state(EmptyPools, remaining_csv, teams_csv)
          IN /\ draft_history = <<>>
             /\ all_players = st.ap
             /\ players_by_role = st.pbr
             /\ teams = st.ts)
  /\ [][(ret.op = "load" /\ ret.value = None /\ ret'.op = "undo") =>
          /\ ret'.value = None
          /\ UNCHANGED <<all_players, players_by_role, teams, draft_history>>]_vars

\* undo answered None over a loaded draft of two roster entries
C11_Witness ==
  /\ ret.op = "undo" /\ ret.value = None
  /\ draft_history = <<>>
  /\ TotalEntries(teams) = 2

\* C12: a load that meets a malformed row leaves players, role pools, teams
\* and history as they were before the load.
C12_MalformedLoadRejected ==
  [][(ret'.op = "load" /\ ret'.value = "ValueError") =>
       UNCHANGED <<all_players, players_by_role, teams, draft_history>>]_vars

\* the (team, role) requests whose team is not registered or whose role is no
\* pool key
UnknownRequests ==
  {q \in TeamIds \X SpinRoles :
     ~HasTeam(teams, q[1]) \/ q[2] \notin DOMAIN players_by_role}

\* the segment lists a caller can hold: built from compute on the draft as it is
SuppliedSegments ==
  {build_segments(compute_probabilities(teams, players_by_role, all_players,
                                        q[1], q[2]).probs) :
     q \in TeamIds \X RoleInputs}

\* C13: for a team id that is not registered or a role that is no pool key,
\* compute returns {} and pick returns None with pools, rosters and history
\* unchanged, also when the position lies inside a supplied segment.
C13_UnknownIsEmpty ==
  \A q \in UnknownRequests :
     /\ compute_probabilities(teams, players_by_role, all_players, q[1], q[2]) = NoProbs
     /\ \A segments \in SuppliedSegments, pos \in Positions :
           LET r == pick_player_from_position(players_by_role, teams, all_players,
                       draft_history, q[1], q[2], pos, segments)
           IN /\ r.value = None
              /\ r.pbr = players_by_role
              /\ r.ts = teams
              /\ r.hist = draft_history

\* position 100 of the wheel, in 1/SCALE percent
Hundred == 100 * SCALE

\* the non-empty segment lists build_segments gives for what compute returns
ComputedSegments ==
  {segments \in {build_segments(compute_probabilities(teams, players_by_role,
                                     all_players, q[1], q[2]).probs) :
                    q \in TeamIds \X SpinRoles} : segments # <<>>}

\* C14: with non-empty segments built from a computed distribution, every
\* position p with 0 <= p < 100 lies in exactly one segment.
C14_ResolveTotal ==
  \A segments \in ComputedSegments :
     \A pos \in {x \in Positions : 0 <= x /\ x < Hundred} :
        Cardinality(Hits(pos, segments)) = 1

\* C15: with non-empty segments, a pick at position exactly 100 selects the
\* last segment's player.
C15_HundredClamped ==
  \A segments \in ComputedSegments :
     Resolve(Hundred, segments) = segments[Len(segments)].p

\* C16: build_segments yields one segment per key in the map's order, the
\* first starting at 0, each starting where the previous one ends, start <= end
\* for each, and the last ending at 100 when the probabilities sum to 1.
C16_SegmentsContiguous ==
  ret.op = "build_segments" =>
     LET pm == ret.probs
         segs == ret.value
     IN /\ Len(segs) = Len(pm)
        /\ \A i \in 1..Len(segs) :
              /\ segs[i].p = pm[i].p
              /\ segs[i].startp = (IF i = 1 THEN 0 ELSE segs[i - 1].endp)
              /\ segs[i].startp <= segs[i].endp
              /\ segs[i].endp - segs[i].startp = pm[i].v * 100
        /\ (segs # <<>> /\ SumValues(pm) = SCALE) => segs[Len(segs)].endp = Hundred

\* three segments were built from a map that sums to 1
C16_Witness ==
  /\ ret.op = "build_segments"
  /\ Len(ret.value) = 3
  /\ SumValues(ret.probs) = SCALE
  /\ ret.value[2].startp > 0
  /\ ret.value[3].endp = Hundred

\* the (team, role) requests with a registered team and a non-empty pool
LiveRequests ==
  {q \in TeamIds \X RoleInputs :
     HasTeam(teams, q[1]) /\ players_by_role[q[2]] # <<>>}

\* base_randomness as DraftLogic.compute_probabilities looks it up
BaseRandomness(tid) ==
  LET n == Len(TeamData(teams, tid).players)
  IN IF n \in DOMAIN randomness_levels THEN randomness_levels[n] ELSE DefaultRandomness

\* the pool members of a role whose preference weight for it is positive
Preferring(role) ==
  {players_by_role[role][i] : i \in
     {k \in 1..Len(players_by_role[role]) :
        get_role_preference_factor(PlayerInfo(all_players, players_by_role[role][k]),
                                   role, role_preference_weights) > 0}}

\* C17: for every registered team and every role whose pool is non-empty the
\* values of compute(team, role) sum to 1, up to one unit of the fixed point
\* per candidate.
C17_SumsToOne ==
  \A q \in LiveRequests :
     LET res == compute_probabilities(teams, players_by_role, all_players, q[1], q[2])
     IN /\ ~res.err
        /\ Abs(SumValues(res.probs) - SCALE) <= Len(res.probs)

\* C18: for a team with picks left the key set of compute(team, role) is the
\* set of pool members whose preference weight for the role is positive, also
\* when the ideal rating is <= 0.
C18_KeySet ==
  \A q \in LiveRequests :
     Len(TeamData(teams, q[1]).players) < team_size =>
        LET res == compute_probabilities(teams, players_by_role, all_players, q[1], q[2])
        IN /\ ~res.err
           /\ {res.probs[i].p : i \in 1..Len(res.probs)} = Preferring(q[2])

\* C19: the ideal rating of a team with n < team_size players is
\* (team_size * global_average - sum of the ratings of its players) /
\* (team_size - n), and 0 when n >= team_size, whatever picks, captain-adds
\* and undos came before.
C19_IdealRating ==
  \A i \in 1..Len(teams) :
     LET n == Len(teams[i].players)
         expected == ((team_size * global_average_mmr
                        - SumMmr(all_players, teams[i].players)) * SCALE)
                     \div (team_size - n)
         got == get_ideal_mmr_for_pick(teams, teams[i].team_id)
     IN /\ ~got.err
        /\ n >= team_size => got.value = 0
        /\ n < team_size => got.value = expected /\ IdealMmr(teams[i]) = expected

\* an undo left a team of one whose ideal rating is not the global average
C19_Witness ==
  /\ ret.op = "undo" /\ ret.value # None
  /\ \E i \in 1..Len(teams) :
        /\ Len(teams[i].players) = 1
        /\ get_ideal_mmr_for_pick(teams, teams[i].team_id).value
              # global_average_mmr * SCALE

\* C20: every candidate compute returns has a probability that is positive
\* and at least base_randomness / N, N the number of returned candidates, and
\* owns a segment of positive length.
C20_RandomnessFloor ==
  \A q \in LiveRequests :
     LET res == compute_probabilities(teams, players_by_role, all_players, q[1], q[2])
         N == Len(res.probs)
         segments == build_segments(res.probs)
     IN \A i \in 1..N :
           /\ res.probs[i].v > 0
           /\ res.probs[i].v >= BaseRandomness(q[1]) \div N
           /\ segments[i].endp > segments[i].startp

\* two candidates share the wheel of a team whose player count is no key of
\* the randomness table
C20_Witness ==
  \E q \in LiveRequests :
     /\ Len(TeamData(teams, q[1]).players) \notin DOMAIN randomness_levels
     /\ Len(compute_probabilities(teams, players_by_role, all_players,
                                  q[1], q[2]).probs) = 2

\* the names the players file holds
FileNames == {player_data_csv[i].name : i \in 1..Len(player_data_csv)}

\* C21: a captain whose name was unknown has a player record with the given
\* rating and one role-priority entry per configured role at priority 1.
C21_CaptainFullRoles ==
  \A i \in 1..Len(all_players) :
     all_players[i].name \notin FileNames =>
        /\ all_players[i].mmr \in CaptainMmrs
        /\ all_players[i].roles = [k \in 1..Len(roles) |-> <<roles[k], 1>>]

\* C22: add_captain registers the team if need be, appends one (name,
\* captain marker) entry to it, recomputes its average, pushes one event with
\* the captain marker as role and leaves the pools and every other team
\* alone; an undo right after it takes that entry off the roster again.
C22_CaptainBypassesLottery ==
  [][/\ ret'.op = "add_captain" =>
          /\ Len(draft_history') = Len(draft_history) + 1
          /\ LET e == Last(draft_history')
                 before == IF HasTeam(teams, e.team_id)
                           THEN TeamData(teams, e.team_id).players ELSE <<>>
             IN /\ e.role = Captain
                /\ draft_history' = Append(draft_history, e)
                /\ HasTeam(teams', e.team_id)
                /\ TeamData(teams', e.team_id).players
                      = Append(before, <<e.player_name, Captain>>)
                /\ TeamData(teams', e.team_id).average_mmr
                      = Mean(all_players', TeamData(teams', e.team_id).players)
                /\ \A k \in 1..Len(teams) :
                      teams[k].team_id # e.team_id => teams'[k] = teams[k]
                /\ players_by_role' = players_by_role
     /\ (ret.op = "add_captain" /\ ret'.op = "undo") =>
          LET e == Last(draft_history)
              i == TeamIndex(teams, e.team_id)
              entry == <<e.player_name, Captain>>
          IN /\ ret'.value = e.player_name
             /\ Len(teams'[i].players) = Len(teams[i].players) - 1
             /\ Occurrences(teams'[i].players, entry)
                   = Occurrences(teams[i].players, entry) - 1
             /\ \A k \in 1..Len(teams) : k # i => teams'[k] = teams[k]]_vars

\* the captain-add of a new name was undone and one roster entry is left
C22_Witness ==
  /\ ret.op = "undo" /\ ret.value = "cap"
  /\ TotalEntries(teams) = 1

\* C23: a pick spun on a fallback role (the requested role's pool being
\* empty) commits a player of another role's pool, the roster entry and the
\* history event both carry the requested role, and an undo right after it
\* takes that roster entry off again and returns the player.
C23_FallbackKeepsRequestedRole ==
  [][/\ (/\ ret'.op = "pick"
          /\ ret'.value \notin {None, "KeyError"}) =>
          /\ Len(draft_history') = Len(draft_history) + 1
          /\ LET e == Last(draft_history')
             IN /\ e.player_name = ret'.value
                /\ TeamData(teams', e.team_id).players
                      = Append(TeamData(teams, e.team_id).players,
                               <<e.player_name, e.role>>)
                /\ players_by_role[e.role] = <<>> =>
                      \E fb \in DOMAIN players_by_role :
                         fb # e.role /\ InSeq(players_by_role[fb], e.player_name)
     /\ (/\ ret.op = "pick"
          /\ ret.value \notin {None, "KeyError"}
          /\ ret'.op = "undo") =>
          LET e == Last(draft_history)
              entry == <<e.player_name, e.role>>
              i == TeamIndex(teams, e.team_id)
          IN /\ ret'.value = e.player_name
             /\ Len(teams'[i].players) = Len(teams[i].players) - 1
             /\ Occurrences(teams'[i].players, entry)
                   = Occurrences(teams[i].players, entry) - 1]_vars

\* a player was committed under a role it does not play: a fallback pick
C23_Witness ==
  /\ ret.op = "pick"
  /\ ret.value \notin {None, "KeyError"}
  /\ draft_history # <<>>
  /\ Last(draft_history).player_name = ret.value
  /\ Last(draft_history).role \notin RolesOf(ret.value)

\* C26: for a team with team_size or more roster entries (captains
\* counted) compute_probabilities is empty for every role, so no pointer
\* position commits a player on the segments built from it; a committed pick
\* is always for a team that had fewer than team_size entries.
C26_FullTeamNoPick ==
  /\ [](\A i \in 1..Len(teams) :
          Len(teams[i].players) >= team_size =>
             \A role \in SpinRoles :
                LET res == compute_probabilities(teams, players_by_role,
                              all_players, teams[i].team_id, role)
                    segments == build_segments(res.probs)
                IN /\ res = NoProbs
                   /\ \A position_pct \in Positions, pr \in RoleInputs :
                         LET r == pick_player_from_position(players_by_role,
                                     teams, all_players, draft_history,
                                     teams[i].team_id, pr, position_pct, segments)
                         IN r.value = None /\ r.ts = teams)
  /\ [][(ret'.op = "pick" /\ ret'.value \notin {None, "KeyError"}) =>
          Len(TeamData(teams, Last(draft_history').team_id).players)
             < team_size]_vars

\* a team is full, one of its entries is a captain, and a pool is not empty
C26_Witness ==
  /\ \E i \in 1..Len(teams) :
        /\ Len(teams[i].players) = team_size
        /\ \E j \in 1..Len(teams[i].players) : teams[i].players[j][2] = Captain
  /\ players_by_role["carry"] # <<>>
  /\ ret.op = "pick" /\ ret.value = None

\* C29: load_state with one of the two files missing returns and leaves
\* players, role pools, rosters, averages and history as they were.
C29_MissingFileNoChange ==
  [][(ret'.op = "load" /\ ret'.value = "missing") =>
        UNCHANGED <<all_players, players_by_role, teams, draft_history>>]_vars

\* the load found the remaining file and no teams file, with a pick made
C29_Witness ==
  /\ ret.op = "load" /\ ret.value = "missing"
  /\ remaining_csv.exists /\ ~teams_csv.exists
  /\ draft_history # <<>>

\* C24: when a spin completes, a player is committed only if at that
\* moment the player is in a role pool and on no team; a completion that
\* commits nobody leaves players, pools, rosters and history as they were.
C24_CommitRevalidates ==
  [][ret'.op = "complete" =>
        IF ret'.value \in {None, "KeyError"}
        THEN UNCHANGED <<all_players, players_by_role, teams, draft_history>>
        ELSE /\ \E r \in DOMAIN players_by_role :
                   InSeq(players_by_role[r], ret'.value)
             /\ RosterCount(teams, ret'.value) = 0]_vars

\* C25: the segments handed to pick when a spin completes are the segments
\* built when that spin was started, whatever was previewed in between.
C25_CommitUsesSpinSegments ==
  [][(ret'.op = "complete" /\ gui.bouncing) =>
        gui.scale_segments = gui.segs]_vars

\* C27 as stated: once a spin was started and the wheel is at rest, the
\* completion handler has run exactly once for it.
C27_CompletesExactlyOnce ==
  (gui.pick_team # None /\ ~gui.bouncing) => gui.completions = 1

\* C27: every started animation ends; the completion handler runs at most
\* once for it, and exactly once unless the modern wheel was cleared while
\* it ran; a step adds at most one roster entry, and among the steps of the
\* animation only a completion adds one; this holds with one or several
\* timer loops running.
C27_SpinEndsOnce ==
  /\ [](/\ gui.completions <= 1
        /\ (gui.pick_team # None /\ ~gui.bouncing /\ ~gui.cancelled) =>
              gui.completions = 1
        /\ gui.bouncing => (gui.completions = 0 /\ gui.loops > 0)
        /\ gui.cancelled => gui.window = "modern")
  /\ [][/\ TotalEntries(teams') <= TotalEntries(teams) + 1
        /\ TotalEntries(teams') > TotalEntries(teams) =>
              (ret'.op = "complete" /\ gui'.completions = 1)]_vars
  /\ (gui.bouncing ~> ~gui.bouncing)

\* a spin was clicked while the wheel was bouncing and one of the two timer
\* loops has completed the pick: the other is still pending
C27_Witness ==
  /\ ret.op = "complete"
  /\ ret.value \notin {None, "KeyError"}
  /\ gui.completions = 1
  /\ gui.loops = 1
  /\ ~gui.bouncing

\* C28: in the modern window the player shown when a spin completes is the
\* player pick_player_from_position committed for that spin.
C28_ShownIsCommitted ==
  (gui.window = "modern" /\ ret.op = "complete") => gui.shown = ret.value

\* the operations that only read the draft
ReadOnlyOps == {"preview", "refresh", "save"}

\* C30: a preview (compute_probabilities, get_ideal_mmr_for_pick,
\* get_pool_average_mmr, get_drafted_average_mmr), a refresh of the role
\* lists (get_players_by_role) and save_state leave players, role pools
\* with their order, rosters, averages and history unchanged.
C30_ReadOnly ==
  [][ret'.op \in ReadOnlyOps =>
        UNCHANGED <<all_players, players_by_role, teams, draft_history>>]_vars

\* the role lists were shown in an order the pools are not in, after a pick
C30_Witness ==
  /\ ret.op = "refresh"
  /\ ret.value # players_by_role
  /\ draft_history # <<>>

====
